---- MODULE Spec2Model ----
(***************************************************************************)
(* Model of HubSpot_to_Excel_SmartUpdate_1.2.py: the HubSpotExporter       *)
(* class (paginated contact fetch, merge with a previously exported        *)
(* workbook, workbook write) and the export runs started from the menu.    *)
(*                                                                         *)
(* Python dicts are functions with string domains, or sequences of         *)
(* <<key, value>> pairs where the key order matters (a DataFrame takes     *)
(* its column order from it).  A DataFrame is [cols, rows]: the column     *)
(* names in order and one function column -> cell per row.  Every cell is  *)
(* a string token: text is itself, the number n is "#n", the missing       *)
(* value of pandas is NaN.                                                 *)
(***************************************************************************)
EXTENDS Integers, Sequences, FiniteSets, TLC

VARIABLES
    clock,              \* wall clock read by datetime.now(), in seconds
    file,               \* the workbook at the output path
    pc,                 \* position of the export run / fetch in progress
    caller,             \* who called get_contacts_from_list
    existing_data,      \* update_excel: sheets loaded from the prior file
    contacts,           \* get_contacts_from_list: raw contacts collected
    offset,             \* get_contacts_from_list: cursor of the next request
    page,               \* get_contacts_from_list: page counter
    requests,           \* offsets of the page requests sent so far
    responses,          \* responses received so far, in order
    fetched,            \* value returned by get_contacts_from_list
    outcome,            \* what the last update_excel run did
    runs,               \* export runs started so far
    export_type,        \* update_excel: label of what is exported
    probed,             \* answer test_connection got in the last run
    new_contacts,       \* merge study: records of the fetch
    existing_contacts,  \* merge study: the existing table
    merged,             \* merge study: first merge result
    remerged,           \* merge study: result of merging against merged
    mpc                 \* merge study: position

vars == <<clock, file, pc, caller, existing_data, contacts, offset,
          page, requests, responses, fetched, outcome, runs, export_type,
          probed, new_contacts, existing_contacts, merged, remerged, mpc>>

exportVars == <<file, pc, caller, existing_data, contacts, offset,
                page, requests, responses, fetched, outcome, runs,
                export_type, probed>>
mergeVars == <<new_contacts, existing_contacts, merged, remerged, mpc>>

-----------------------------------------------------------------------------
(* Bounds *)

MaxPages == 3       \* pages the server serves in one fetch
MaxPageLen == 1     \* contacts on one page
MaxRuns == 2        \* export runs against the same path
MaxClock == 3       \* seconds the wall clock can advance
MaxRows == 2        \* rows of an enumerated existing table / records of a fetch

-----------------------------------------------------------------------------
(* Generic helpers *)

Range(s) == {s[i] : i \in 1..Len(s)}

RECURSIVE Flatten(_)
Flatten(ss) == IF ss = <<>> THEN <<>> ELSE Head(ss) \o Flatten(Tail(ss))

\* dict.get(key, default)
Get(d, key, default) == IF key \in DOMAIN d THEN d[key] ELSE default

\* value of key in an ordered dict (sequence of <<key, value>> pairs)
Item(od, key) == (CHOOSE i \in 1..Len(od) : od[i][1] = key)

-----------------------------------------------------------------------------
(* Cells *)

NaN == "NaN"

\* the number n as a cell
Number(n) == "#" \o ToString(n)

\* str(n)
Str(n) == ToString(n)

\* datetime.now().strftime("%Y-%m-%d %H:%M:%S")
Strftime(t) == "2026-01-01 00:00:" \o ToString(t)

\* the clock may advance between two reads of datetime.now()
Later(t) == {u \in {t, t + 1} : u <= MaxClock}

-----------------------------------------------------------------------------
(* DataFrames *)

NoFrame == [cols |-> <<>>, rows |-> <<>>]

\* the value None where a DataFrame is expected
None == [none |-> TRUE]
IsNone(df) == "none" \in DOMAIN df

\* pd.DataFrame(columns=[...])
EmptyFrame(columns) == [cols |-> columns, rows |-> <<>>]

\* DataFrame.empty: some axis has length 0
Empty(df) == Len(df.cols) = 0 \/ Len(df.rows) = 0

\* pd.DataFrame(list of dicts): the columns are the keys in order
DataFrame(dicts) ==
    IF dicts = <<>> THEN NoFrame
    ELSE [cols |-> [i \in 1..Len(dicts[1]) |-> dicts[1][i][1]],
          rows |-> [r \in 1..Len(dicts) |->
                      [c \in {dicts[r][i][1] : i \in 1..Len(dicts[r])} |->
                          dicts[r][Item(dicts[r], c)][2]]]]

\* df[col] = values (one per row): overwrite the column in place, or append
\* a new one
SetColumn(df, col, values) ==
    [cols |-> IF col \in Range(df.cols) THEN df.cols ELSE Append(df.cols, col),
     rows |-> [r \in 1..Len(df.rows) |->
                 [c \in Range(df.cols) \cup {col} |->
                     IF c = col THEN values[r] ELSE df.rows[r][c]]]]

\* a column holding the same value in every row
Constant(df, value) == [r \in 1..Len(df.rows) |-> value]

Ids(df) == IF "Contact ID" \in Range(df.cols)
           THEN {df.rows[r]["Contact ID"] : r \in 1..Len(df.rows)}
           ELSE {}

-----------------------------------------------------------------------------
(* update_excel, lines 273-291: one table row per fetched contact *)

ContactInfo(contact, t) ==
    LET properties == Get(contact, "properties", <<>>)
    IN << <<"Contact ID", Get(contact, "id", "")>>,
          <<"Email", Get(properties, "email", "")>>,
          <<"First Name", Get(properties, "firstname", "")>>,
          <<"Last Name", Get(properties, "lastname", "")>>,
          <<"Phone", Get(properties, "phone", "")>>,
          <<"Company", Get(properties, "company", "")>>,
          <<"Lifecycle Stage", Get(properties, "lifecyclestage", "")>>,
          <<"Lead Status", Get(properties, "hs_lead_status", "")>>,
          <<"Last Updated", Strftime(t)>> >>

ContactData(cs, t) == [i \in 1..Len(cs) |-> ContactInfo(cs[i], t)]

\* columns of the Contacts sheet when there is nothing to export (line 298)
ContactColumns ==
    <<"Contact ID", "Email", "First Name", "Last Name", "Phone", "Company",
      "Lifecycle Stage", "Lead Status", "Last Updated">>

-----------------------------------------------------------------------------
(* merge_contact_data *)

\* a lookup that never finds the identifier
CustomValue_Miss(existing_df, x, col) == ""

\* custom_data.get(x, {}).get(col, '')
CustomValue(existing_df, x, col) ==
    IF x \in Ids(existing_df)
    THEN LET r == CHOOSE r \in 1..Len(existing_df.rows) :
                      existing_df.rows[r]["Contact ID"] = x
         IN existing_df.rows[r][col]
    ELSE ""

\* new_df['Contact ID'].map(lambda x: custom_data.get(x, {}).get(col, ''))
CustomColumn(new_df, col, existing_df) ==
    [r \in 1..Len(new_df.rows) |->
        CustomValue(existing_df, new_df.rows[r]["Contact ID"], col)]

RECURSIVE AddCustomColumns_Reversed(_, _, _)
\* the custom columns added last to first
AddCustomColumns_Reversed(new_df, custom_columns, existing_df) ==
    IF custom_columns = <<>> THEN new_df
    ELSE LET col == custom_columns[Len(custom_columns)]
         IN AddCustomColumns_Reversed(
                SetColumn(new_df, col, CustomColumn(new_df, col, existing_df)),
                SubSeq(custom_columns, 1, Len(custom_columns) - 1), existing_df)

\* the check of line 204 left out
HasContactId_Unchecked(existing_df) == TRUE

\* 'Contact ID' in existing_df.columns (line 204)
HasContactId(existing_df) == "Contact ID" \in Range(existing_df.cols)

RECURSIVE AddCustomColumns(_, _, _)
\* for col in custom_columns: new_df[col] = new_df['Contact ID'].map(...)
AddCustomColumns(new_df, custom_columns, existing_df) ==
    IF custom_columns = <<>> THEN new_df
    ELSE LET col == Head(custom_columns)
         IN AddCustomColumns(
                SetColumn(new_df, col, CustomColumn(new_df, col, existing_df)),
                Tail(custom_columns), existing_df)

merge_contact_data(new, existing, t) ==
    IF IsNone(existing) \/ Empty(existing) THEN DataFrame(new)
    ELSE
    LET new_df == DataFrame(new)
        existing_df == existing
    IN
    IF ~HasContactId(existing_df) THEN new_df
    ELSE
    LET hubspot_columns == IF ~Empty(new_df) THEN Range(new_df.cols) ELSE {}
        IsCustom(col) == col \notin hubspot_columns
        custom_columns == SelectSeq(existing_df.cols, IsCustom)
    IN
    IF Empty(new_df) THEN existing_df
    ELSE AddCustomColumns(SetColumn(new_df, "Last Updated",
                                    Constant(new_df, Strftime(t))),
                          custom_columns, existing_df)

-----------------------------------------------------------------------------
(* Workbook sheets: DataFrame.to_excel and pd.read_excel *)

\* str(vid) of the contact identifiers the CRM issues, and other digit strings
Numerals == {101, 102, 555}

\* text that pandas' type inference reads as a number
IsNumericText(cell) == \E n \in Numerals : cell = Str(n)
IsNumberCell(cell) == \E n \in Numerals \cup (0..9) : cell = Number(n)

\* to_excel: the missing value is written as a blank cell (na_rep=''), an empty
\* string is a blank cell as well; text stays text, numbers stay numbers
ToExcel(df) ==
    [cols |-> df.cols,
     rows |-> [r \in 1..Len(df.rows) |->
                 [c \in Range(df.cols) |->
                     IF df.rows[r][c] = NaN THEN "" ELSE df.rows[r][c]]]]

\* read_excel with its defaults: blank cells are NaN, and a column whose
\* cells are all blank, numbers or digit strings is converted to numbers
\* (no dtype is given, so the parser infers one per column)
ReadExcel(sheet) ==
    LET Numeric(c) == \A r \in 1..Len(sheet.rows) :
                          \/ sheet.rows[r][c] = ""
                          \/ IsNumberCell(sheet.rows[r][c])
                          \/ IsNumericText(sheet.rows[r][c])
        Cell(c, v) == IF v = "" THEN NaN
                      ELSE IF Numeric(c) /\ IsNumericText(v) THEN "#" \o v
                      ELSE v
    IN [cols |-> sheet.cols,
        rows |-> [r \in 1..Len(sheet.rows) |->
                    [c \in Range(sheet.cols) |-> Cell(c, sheet.rows[r][c])]]]

NoFile == [exists |-> FALSE]
CorruptFile == [exists |-> TRUE, corrupt |-> TRUE]
Readable(f) == f.exists /\ "sheets" \in DOMAIN f

\* load_existing_data; ioerror: pd.ExcelFile / read_excel raised
load_existing_data(f, ioerror) ==
    IF ~f.exists THEN <<>>
    ELSE IF ~Readable(f) \/ ioerror THEN <<>>
    ELSE [name \in DOMAIN f.sheets |-> ReadExcel(f.sheets[name])]

-----------------------------------------------------------------------------
(* get_contacts_from_list *)

Raised == [raised |-> TRUE]
IsRaised(resp) == "raised" \in DOMAIN resp

\* a JSON value of a contact property: an object or a scalar
Object(items) == [dict |-> TRUE, items |-> items]
Scalar(v) == [dict |-> FALSE, scalar |-> v]

\* lines 158-172: one v3 record per raw contact, properties flattened
V3Contact(contact) ==
    LET props == Get(contact, "properties", <<>>)
    IN [id |-> IF "vid" \in DOMAIN contact THEN Str(contact.vid) ELSE "",
        properties |->
            [prop \in DOMAIN props |->
                IF props[prop].dict THEN Get(props[prop].items, "value", "")
                ELSE props[prop].scalar]]

V3Contacts(cs) == [i \in 1..Len(cs) |-> V3Contact(cs[i])]

\* contacts the CRM can hold
RawContacts ==
    { [vid |-> 101, properties |-> [email |-> Object([value |-> "a@x"])]],
      [vid |-> 101, properties |-> [email |-> Object([value |-> "new@x"]),
                                    phone |-> Object([value |-> "555"])]],
      [vid |-> 102, properties |-> [email |-> Scalar("b@x"),
                                    company |-> Object(<<>>)]],
      [vid |-> 102],
      [properties |-> [firstname |-> Object([value |-> "Ann"])]] }

RawId(c) == IF "vid" \in DOMAIN c THEN c.vid ELSE 0

\* identifiers are unique within a fetch (the CRM lists a contact once); the
\* merge relies on it: to_dict('index') of line 221 needs a unique index
Fresh(pg, seen) ==
    /\ \A i, j \in 1..Len(pg) : RawId(pg[i]) = RawId(pg[j]) => i = j
    /\ \A i \in 1..Len(pg), j \in 1..Len(seen) : RawId(pg[i]) # RawId(seen[j])

Pages == UNION {[1..n -> RawContacts] : n \in 0..MaxPageLen}

\* optional key of a JSON object
Opt(key, present, value) == IF present THEN key :> value ELSE <<>>

\* bodies of a 200 response: every key may be missing
Bodies ==
    {Opt("contacts", hasC, pg) @@ Opt("has-more", hasM, more) @@ Opt("vid-offset", hasO, off) :
        hasC \in BOOLEAN, pg \in Pages, hasM \in BOOLEAN, more \in BOOLEAN,
        hasO \in BOOLEAN, off \in {100 * p : p \in 1..MaxPages}}

Responses ==
    {Raised, [status |-> 401], [status |-> 404], [status |-> 500], [status |-> 200]}
    \cup {[status |-> 200, json |-> b] : b \in Bodies}

\* what the server can answer to the next request of the fetch in progress:
\* the cursor it hands out with page k, if any, is 100 * k
Answers ==
    {resp \in Responses :
        "json" \in DOMAIN resp =>
            /\ Fresh(Get(resp.json, "contacts", <<>>), contacts)
            /\ Get(resp.json, "has-more", FALSE) => page < MaxPages
            /\ Get(resp.json, "vid-offset", 100 * page) = 100 * page}

\* the fetch returns value to its caller
Return(value) ==
    /\ fetched' = value
    /\ pc' = "returned"

\* the page's contacts put in front of those collected
Extend_Prepended(collected, page_contacts) == page_contacts \o collected

\* contacts.extend(page_contacts) (line 139)
Extend(collected, page_contacts) == collected \o page_contacts

\* the cursor never advanced
NextOffset_Stuck(data) == 0

\* offset = data.get("vid-offset", 0) (line 145)
NextOffset(data) == Get(data, "vid-offset", 0)

\* the error answer returning what was collected
ErrorReturn_Partial(collected) == V3Contacts(collected)

\* return [] on a 401, a 404 or another status that is not 200 (lines 126-135)
ErrorReturn(collected) == <<>>

\* the exception handler discarding what was collected
OnException_Discard(collected) == <<>>

\* except ...: break (lines 150-152): the loop is left with what was collected
OnException(collected) == collected

\* one iteration of the while loop (lines 112-152), and on leaving the loop
\* the conversion to the v3 format (lines 154-174)
PageRequest(resp) ==
    /\ pc = "request"
    /\ requests' = Append(requests, offset)
    /\ responses' = Append(responses, resp)
    /\ IF IsRaised(resp) THEN
            /\ Return(V3Contacts(OnException(contacts)))
            /\ UNCHANGED <<contacts, offset, page>>
       ELSE IF resp.status # 200 THEN
            /\ Return(ErrorReturn(contacts))
            /\ UNCHANGED <<contacts, offset, page>>
       ELSE IF "json" \notin DOMAIN resp THEN
            \* response.json() raises
            /\ Return(V3Contacts(OnException(contacts)))
            /\ UNCHANGED <<contacts, offset, page>>
       ELSE LET data == resp.json
                page_contacts == Get(data, "contacts", <<>>)
            IN /\ contacts' = Extend(contacts, page_contacts)
               /\ IF Get(data, "has-more", FALSE)
                  THEN /\ offset' = NextOffset(data)
                       /\ page' = page + 1
                       /\ UNCHANGED <<pc, fetched>>
                  ELSE /\ Return(V3Contacts(Extend(contacts, page_contacts)))
                       /\ UNCHANGED <<offset, page>>
    /\ UNCHANGED <<clock, file, caller, existing_data, outcome, runs,
                   export_type, probed, mergeVars>>

\* entry of get_contacts_from_list (lines 106-108)
StartFetch ==
    /\ contacts' = <<>>
    /\ offset' = 0
    /\ page' = 1
    /\ requests' = <<>>
    /\ responses' = <<>>
    /\ fetched' = <<>>
    /\ pc' = "request"

\* get_contacts_from_list called on its own
FetchCall ==
    /\ pc = "menu"
    /\ caller' = "direct"
    /\ StartFetch
    /\ UNCHANGED <<clock, file, existing_data, outcome, runs,
                   export_type, probed, mergeVars>>

-----------------------------------------------------------------------------
(* update_excel *)

EmailColumns ==
    <<"Contact ID", "Contact Email", "Contact Name", "Email Subject",
      "Email Direction", "Email Status", "Email Date", "Email Preview">>

MeetingColumns ==
    <<"Contact ID", "Contact Email", "Contact Name", "Meeting Title",
      "Meeting Start", "Meeting End", "Meeting Outcome", "Meeting Notes">>

\* test_connection: True only for a 200 answer whose body is JSON
test_connection(probe) ==
    ~IsRaised(probe) /\ probe.status = 200 /\ "json" \in DOMAIN probe

Probes ==
    {Raised, [status |-> 200, json |-> [total |-> 2]], [status |-> 200],
     [status |-> 401], [status |-> 500]}

\* <<list_id, list_name>> the menu passes: choice 3 gives neither ("" stands
\* for None, both are falsy), choice 2 a list id and an optional name
MenuChoices == {<<"", "">>, <<"7", "">>, <<"7", "VIPs">>}

\* lines 259-265
ExportType(list_id, list_name) ==
    IF list_id # ""
    THEN "List " \o (IF list_name # "" THEN list_name ELSE list_id)
    ELSE "All Contacts"

\* lines 303-309
SummaryFrame(contact_df) ==
    IF Empty(contact_df) THEN NoFrame
    ELSE LET Zero == Constant(contact_df, Number(0))
             Blank == Constant(contact_df, "")
         IN SetColumn(SetColumn(SetColumn(SetColumn(contact_df,
                "Total Emails", Zero), "Total Meetings", Zero),
                "Last Email Date", Blank), "Last Meeting Date", Blank)

\* lines 293-298 (merge_strategy is 'update', the default)
ContactFrame(contact_data, existing, t) ==
    IF DOMAIN existing # {} /\ "Contacts" \in DOMAIN existing
    THEN merge_contact_data(contact_data, existing["Contacts"], t)
    ELSE IF contact_data # <<>> THEN DataFrame(contact_data)
         ELSE EmptyFrame(ContactColumns)

\* lines 315-332: the workbook written
Workbook(contact_df, etype, file_exists, t) ==
    LET metadata ==
            DataFrame(<< << <<"Export Date", Strftime(t)>>,
                            <<"Export Type", etype>>,
                            <<"Total Contacts", Number(Len(contact_df.rows))>>,
                            <<"Total Emails", Number(0)>>,
                            <<"Total Meetings", Number(0)>>,
                            <<"Status", IF file_exists THEN "Updated" ELSE "Created">>,
                            <<"Authentication", "Success">> >> >>)
    IN [exists |-> TRUE,
        sheets |-> ("Export Info" :> ToExcel(metadata)
                    @@ "Summary" :> ToExcel(SummaryFrame(contact_df))
                    @@ "Contacts" :> ToExcel(contact_df)
                    @@ "Emails" :> ToExcel(EmptyFrame(EmailColumns))
                    @@ "Meetings" :> ToExcel(EmptyFrame(MeetingColumns)))]

\* update_excel up to the first page request: the probe, the load of the
\* prior file, the entry of the fetch (lines 244-265)
ExportStart(list_id, list_name, probe, ioerror) ==
    /\ pc = "menu"
    /\ runs < MaxRuns
    /\ runs' = runs + 1
    /\ probed' = probe
    /\ IF ~test_connection(probe) THEN
            /\ outcome' = "aborted"
            /\ UNCHANGED <<pc, caller, existing_data, contacts, offset, page,
                           requests, responses, fetched, export_type>>
       ELSE
            /\ existing_data' = load_existing_data(file, ioerror)
            /\ export_type' = ExportType(list_id, list_name)
            /\ caller' = "update_excel"
            /\ outcome' = "running"
            /\ StartFetch
    /\ UNCHANGED <<clock, file, mergeVars>>

\* a page request of the fetch update_excel is waiting for
ExportPage(resp) ==
    /\ caller = "update_excel"
    /\ PageRequest(resp)

\* update_excel after the fetch returned (lines 267-346); saved: the
\* workbook was written without an exception
ExportFinish(saved) ==
    /\ pc = "returned"
    /\ caller = "update_excel"
    /\ \E t \in Later(clock) :
          LET contact_data == ContactData(fetched, clock)
              contact_df == ContactFrame(contact_data, existing_data, t)
          IN /\ clock' = t
             /\ IF saved
                THEN /\ file' = Workbook(contact_df, export_type,
                                         DOMAIN existing_data # {}, t)
                     /\ outcome' = "saved"
                ELSE /\ file' \in {file, CorruptFile}
                     /\ outcome' = "save failed"
    /\ pc' = "menu"
    /\ caller' = "none"
    \* the locals of the run are gone
    /\ existing_data' = <<>>
    /\ contacts' = <<>> /\ offset' = 0 /\ page' = 1
    /\ requests' = <<>> /\ responses' = <<>> /\ fetched' = <<>>
    /\ export_type' = ""
    /\ UNCHANGED <<runs, probed, mergeVars>>

-----------------------------------------------------------------------------
(* Merge study: merge_contact_data applied to enumerated inputs *)

StudyIds == {"101", "102", "103"}

\* fetched records in the v3 format get_contacts_from_list returns
StudyRecords ==
    {[id |-> i, properties |-> p] :
        i \in {"101", "102"},
        p \in {<<>>, [email |-> "new@x"], [email |-> "a@x", phone |-> "555"]}}

\* identifiers are unique within a fetch, and a persisted table has one row
\* per record
UniqueIds(cs) == \A i, j \in 1..Len(cs) : cs[i].id = cs[j].id => i = j

StudyFetches ==
    {cs \in UNION {[1..n -> StudyRecords] : n \in 0..MaxRows} : UniqueIds(cs)}

StudyColumns ==
    { <<"Email", "Owner Notes">>,
      <<"Contact ID", "Email", "Owner Notes">>,
      <<"Region", "Contact ID", "Email", "Last Updated", "Owner Notes">>,
      ContactColumns,
      ContactColumns \o <<"Owner Notes", "Region">> }

StudyRows(cols) ==
    {[c \in Range(cols) |->
        CASE c = "Contact ID" -> i
          [] c = "Owner Notes" -> o
          [] c = "Region" -> "EU"
          [] c = "Email" -> "old@x"
          [] c = "Last Updated" -> Strftime(0)
          [] OTHER -> ""] :
        i \in StudyIds, o \in {"VIP", ""}}

StudyTables ==
    {None, NoFrame} \cup
    UNION {
      {[cols |-> cols, rows |-> rows] :
          rows \in {rs \in UNION {[1..n -> StudyRows(cols)] : n \in 0..MaxRows} :
                      \A i, j \in 1..Len(rs) :
                          ("Contact ID" \in Range(cols)
                             /\ rs[i]["Contact ID"] = rs[j]["Contact ID"])
                              => i = j}}
      : cols \in StudyColumns}

\* the records of the same fetch, built again at time t (line 289)
Restamp(contact_data, t) ==
    [r \in 1..Len(contact_data) |->
        [k \in 1..Len(contact_data[r]) |->
            IF contact_data[r][k][1] = "Last Updated"
            THEN <<"Last Updated", Strftime(t)>>
            ELSE contact_data[r][k]]]

StudyInit ==
    /\ clock = 0
    /\ new_contacts \in {ContactData(cs, 0) : cs \in StudyFetches}
    /\ existing_contacts \in StudyTables
    /\ merged = None
    /\ remerged = None
    /\ mpc = "input"

\* merge_contact_data on the enumerated inputs (the call of line 296)
StudyMerge ==
    /\ mpc = "input"
    /\ \E t \in Later(clock) :
          /\ merged' = merge_contact_data(new_contacts, existing_contacts, t)
          /\ clock' = t
    /\ mpc' = "merged"
    /\ UNCHANGED <<new_contacts, existing_contacts, remerged>>

\* the same fetch merged against the table the first merge produced
StudyRemerge ==
    /\ mpc = "merged"
    /\ \E t \in Later(clock) :
          /\ remerged' = merge_contact_data(Restamp(new_contacts, clock),
                                            merged, t)
          /\ clock' = t
    /\ mpc' = "remerged"
    /\ UNCHANGED <<new_contacts, existing_contacts, merged>>

\* time passes
Tick ==
    /\ clock < MaxClock
    /\ clock' = clock + 1
    /\ UNCHANGED <<exportVars, mergeVars>>

ExportIdle ==
    /\ file = NoFile
    /\ pc = "menu" /\ caller = "none"
    /\ existing_data = <<>>
    /\ contacts = <<>> /\ offset = 0 /\ page = 1
    /\ requests = <<>> /\ responses = <<>> /\ fetched = <<>>
    /\ outcome = "none" /\ runs = 0
    /\ export_type = "" /\ probed = Raised

MergeInit == StudyInit /\ ExportIdle

MergeNext ==
    \/ StudyMerge /\ UNCHANGED exportVars
    \/ StudyRemerge /\ UNCHANGED exportVars
    \/ Tick

SpecMerge == MergeInit /\ [][MergeNext]_vars

-----------------------------------------------------------------------------
(* Properties of merge_contact_data *)

ExistingIds == IF IsNone(existing_contacts) THEN {} ELSE Ids(existing_contacts)
NewIds == {new_contacts[r][1][2] : r \in 1..Len(new_contacts)}
NewKeys == IF new_contacts = <<>> THEN {}
           ELSE {new_contacts[1][k][1] : k \in 1..Len(new_contacts[1])}

\* the merge took the path of lines 208-238
MergeCase ==
    /\ mpc # "input"
    /\ new_contacts # <<>>
    /\ ~IsNone(existing_contacts)
    /\ existing_contacts.rows # <<>>
    /\ "Contact ID" \in Range(existing_contacts.cols)

\* C1: for a non-empty fetch and a non-empty existing table with a
\* 'Contact ID' column, output row r is the r-th fetched record: its fetched
\* fields are those of the fetch, each custom column (a column of the existing
\* table that the fetch does not produce) holds the value the existing table
\* has for the row's Contact ID, and the empty string when the existing table
\* has no row for it.
C1_CustomColumnsCarried ==
    MergeCase =>
        /\ Len(merged.rows) = Len(new_contacts)
        /\ \A r \in 1..Len(new_contacts) :
              /\ \A k \in 1..Len(new_contacts[r]) :
                    new_contacts[r][k][1] # "Last Updated" =>
                        merged.rows[r][new_contacts[r][k][1]] = new_contacts[r][k][2]
              /\ \A c \in Range(existing_contacts.cols) \ NewKeys :
                    /\ c \in Range(merged.cols)
                    /\ \A e \in Range(existing_contacts.rows) :
                          e["Contact ID"] = new_contacts[r][1][2] =>
                              merged.rows[r][c] = e[c]
                    /\ new_contacts[r][1][2] \notin ExistingIds =>
                          merged.rows[r][c] = ""

\* C1 witness: a merged row keeps "VIP" from the existing table while its
\* Email is the fetched one, and another row is new and gets the empty string.
C1_Witness ==
    /\ MergeCase
    /\ "Owner Notes" \in Range(existing_contacts.cols)
    /\ \E r \in 1..Len(merged.rows) :
          /\ merged.rows[r]["Contact ID"] \in ExistingIds
          /\ merged.rows[r]["Owner Notes"] = "VIP"
          /\ merged.rows[r]["Email"] = "new@x"
    /\ \E r \in 1..Len(merged.rows) :
          /\ merged.rows[r]["Contact ID"] \notin ExistingIds
          /\ merged.rows[r]["Owner Notes"] = ""

\* C2: the merged output has no row for an identifier that is in the existing
\* table and not in the fetch, for every fetch (an empty one included).
C2_FullReplace ==
    mpc # "input" =>
        \A i \in ExistingIds \ NewIds : i \notin Ids(merged)

\* C3: merging the same fetch against the table the first merge produced
\* gives the same columns in the same order, the same number of rows and the
\* same cells, except in the 'Last Updated' column.
C3_Idempotent ==
    mpc = "remerged" =>
        /\ remerged.cols = merged.cols
        /\ Len(remerged.rows) = Len(merged.rows)
        /\ \A r \in 1..Len(merged.rows) :
              \A c \in Range(merged.cols) \ {"Last Updated"} :
                  remerged.rows[r][c] = merged.rows[r][c]

\* C3 witness: a second merge over a table with two custom columns, one of
\* them holding "VIP", that changed the time stamp.
C3_Witness ==
    /\ mpc = "remerged"
    /\ MergeCase
    /\ {"Owner Notes", "Region"} \subseteq Range(merged.cols)
    /\ \E r \in 1..Len(merged.rows) :
          /\ remerged.rows[r]["Owner Notes"] = "VIP"
          /\ remerged.rows[r]["Last Updated"] # merged.rows[r]["Last Updated"]

\* C9: when the existing table has no 'Contact ID' column, the result is the
\* table of the new records as they are: their keys as columns, one row per
\* record, every cell the record's value (the time stamp included), and no
\* other column.
C9_NoIdColumnReturnsNew ==
    (mpc # "input" /\ ~IsNone(existing_contacts)
        /\ "Contact ID" \notin Range(existing_contacts.cols)) =>
        /\ Len(merged.rows) = Len(new_contacts)
        /\ Range(merged.cols) = NewKeys
        /\ \A r \in 1..Len(new_contacts) :
              /\ DOMAIN merged.rows[r] = NewKeys
              /\ \A k \in 1..Len(new_contacts[r]) :
                    /\ merged.cols[k] = new_contacts[r][k][1]
                    /\ merged.rows[r][new_contacts[r][k][1]] = new_contacts[r][k][2]

\* C9 witness: a non-empty existing table without 'Contact ID' but with a
\* custom column met a non-empty fetch, after the clock moved.
C9_Witness ==
    /\ mpc = "merged"
    /\ ~IsNone(existing_contacts)
    /\ existing_contacts.rows # <<>>
    /\ "Contact ID" \notin Range(existing_contacts.cols)
    /\ "Owner Notes" \in Range(existing_contacts.cols)
    /\ new_contacts # <<>>
    /\ clock > 0

-----------------------------------------------------------------------------
(* The fetch on its own, against a server that may answer anything *)

StudyIdle ==
    /\ new_contacts = <<>> /\ existing_contacts = None
    /\ merged = None /\ remerged = None /\ mpc = "idle"

FetchInit == clock = 0 /\ ExportIdle /\ StudyIdle

FetchNext ==
    \/ FetchCall
    \/ \E resp \in Answers : caller = "direct" /\ PageRequest(resp)

SpecFetch == FetchInit /\ [][FetchNext]_vars

-----------------------------------------------------------------------------
(* Properties of get_contacts_from_list *)

Successful(resp) == ~IsRaised(resp) /\ resp.status = 200 /\ "json" \in DOMAIN resp
MorePages(resp) == Get(resp.json, "has-more", FALSE)
PageOf(resp) == Get(resp.json, "contacts", <<>>)

\* the records of the first n pages received, in page order
PagesUpTo(n) == Flatten([k \in 1..n |-> PageOf(responses[k])])

\* the fetch answered n successful pages, all but the last one with has-more
CompleteFetch ==
    /\ caller = "direct"
    /\ Len(responses) >= 1
    /\ \A k \in 1..Len(responses) : Successful(responses[k])
    /\ \A k \in 1..(Len(responses) - 1) : MorePages(responses[k])
    /\ ~MorePages(responses[Len(responses)])

\* C6: after n >= 1 successful pages, the first n-1 with has-more true and
\* the n-th with has-more false or absent, exactly n requests were made, the
\* first with offset 0 and request k+1 with the vid-offset of response k (0
\* when the response has none), the fetch has returned, and its result is one
\* normalized record per contact of the n pages, in page order.
C6_Pagination ==
    CompleteFetch =>
        /\ pc = "returned"
        /\ Len(requests) = Len(responses)
        /\ requests[1] = 0
        /\ \A k \in 1..(Len(responses) - 1) :
              requests[k + 1] = Get(responses[k].json, "vid-offset", 0)
        /\ Len(fetched) = Len(PagesUpTo(Len(responses)))
        /\ \A i \in 1..Len(fetched) :
              fetched[i] = V3Contact(PagesUpTo(Len(responses))[i])

\* C6 witness: three pages, has-more true, true, false, cursors 100 and 200,
\* a contact on each page.
C6_Witness ==
    /\ CompleteFetch
    /\ requests = <<0, 100, 200>>
    /\ \A k \in 1..3 : PageOf(responses[k]) # <<>>
    /\ Len(fetched) = 3

\* C7: when request k raises after k-1 successful pages, the fetch has
\* returned (nothing is raised to the caller), request k was the last one,
\* and the result is the records of pages 1..k-1 in page order.
C7_TransportFailure ==
    (/\ caller = "direct"
     /\ \E k \in 1..Len(responses) :
           /\ IsRaised(responses[k])
           /\ \A j \in 1..(k - 1) : Successful(responses[j])) =>
        LET k == CHOOSE k \in 1..Len(responses) : IsRaised(responses[k])
        IN /\ pc = "returned"
           /\ Len(responses) = k
           /\ Len(requests) = k
           /\ Len(fetched) = Len(PagesUpTo(k - 1))
           /\ \A i \in 1..Len(fetched) : fetched[i] = V3Contact(PagesUpTo(k - 1)[i])

\* C7 witness: the third request raised after two pages with one contact each.
C7_Witness ==
    /\ caller = "direct"
    /\ Len(responses) = 3
    /\ IsRaised(responses[3])
    /\ Len(fetched) = 2
    /\ fetched[1].id # fetched[2].id

\* C8: once a page request is answered 401 or 404 the fetch has returned the
\* empty collection, whatever the earlier pages held.
C8_ErrorStatusEmpty ==
    (/\ caller = "direct"
     /\ \E k \in 1..Len(responses) :
           ~IsRaised(responses[k]) /\ responses[k].status \in {401, 404}) =>
        /\ pc = "returned"
        /\ fetched = <<>>
        /\ ~IsRaised(responses[Len(responses)])
        /\ responses[Len(responses)].status \in {401, 404}

\* C8 witness: a 401 on the second page, after a first page with a contact.
C8_Witness ==
    /\ caller = "direct"
    /\ Len(responses) = 2
    /\ Successful(responses[1]) /\ PageOf(responses[1]) # <<>>
    /\ ~IsRaised(responses[2]) /\ responses[2].status = 401
    /\ pc = "returned"

-----------------------------------------------------------------------------
(* Export runs against one output path, with a human editing the workbook  *)
(* between runs                                                            *)

CustomNames == <<"Owner Notes", "Region">>

\* what the human types into a cell of the column
CustomCells(col) == IF col = "Owner Notes" THEN {"VIP", ""} ELSE {"EU"}

\* the human adds a column to the right of the Contacts sheet and fills it
HumanAddsColumn(k, notes) ==
    /\ pc = "menu"
    /\ Readable(file)
    /\ "Contacts" \in DOMAIN file.sheets
    /\ LET sheet == file.sheets["Contacts"]
           col == CustomNames[k]
       IN /\ col \notin Range(sheet.cols)
          /\ sheet.cols # <<>>
          /\ \A j \in 1..(k - 1) : CustomNames[j] \in Range(sheet.cols)
          /\ notes \in [1..Len(sheet.rows) -> CustomCells(col)]
          /\ file' = [file EXCEPT !.sheets["Contacts"] =
                        [cols |-> Append(sheet.cols, col),
                         rows |-> [r \in 1..Len(sheet.rows) |->
                                     [c \in Range(sheet.cols) \cup {col} |->
                                        IF c = col THEN notes[r]
                                        ELSE sheet.rows[r][c]]]]]
    /\ UNCHANGED <<clock, pc, caller, existing_data, contacts, offset,
                   page, requests, responses, fetched, outcome, runs,
                   export_type, probed, mergeVars>>

Notes ==
    UNION {[1..n -> {"VIP", "", "EU"}] : n \in 0..(MaxPages * MaxPageLen)}

\* answers of a server that keeps to the API's format
ExportAnswers ==
    {resp \in Answers :
        /\ ~IsRaised(resp) => resp.status \in {200, 401}
        /\ (~IsRaised(resp) /\ resp.status = 200) =>
              /\ "json" \in DOMAIN resp
              /\ DOMAIN resp.json = {"contacts", "has-more", "vid-offset"}
              /\ \A i \in 1..Len(resp.json["contacts"]) :
                    /\ "vid" \in DOMAIN resp.json["contacts"][i]
                    /\ "properties" \in DOMAIN resp.json["contacts"][i]}

Init == clock = 0 /\ ExportIdle /\ StudyIdle

Next ==
    \/ \E choice \in MenuChoices, probe \in Probes, ioerror \in BOOLEAN :
          ExportStart(choice[1], choice[2], probe, ioerror)
    \/ \E resp \in ExportAnswers : ExportPage(resp)
    \/ \E saved \in BOOLEAN : ExportFinish(saved)
    \/ \E k \in 1..Len(CustomNames), notes \in Notes : HumanAddsColumn(k, notes)

Spec == Init /\ [][Next]_vars

-----------------------------------------------------------------------------
(* Properties of the export runs *)

\* the Contacts sheet of workbook f, or no table when there is none to read
ContactsSheet(f) ==
    IF Readable(f) /\ "Contacts" \in DOMAIN f.sheets
    THEN f.sheets["Contacts"] ELSE NoFrame

\* the columns of a sheet that the export does not produce
CustomOf(sheet) ==
    LET NotFetched(c) == c \notin Range(ContactColumns)
    IN SelectSeq(sheet.cols, NotFetched)

RECURSIVE IsSubsequence(_, _)
IsSubsequence(s, t) ==
    IF s = <<>> THEN TRUE
    ELSE IF t = <<>> THEN FALSE
    ELSE IF Head(s) = Head(t) THEN IsSubsequence(Tail(s), Tail(t))
    ELSE IsSubsequence(s, Tail(t))

\* this step is the end of a run that wrote the workbook
Saves == pc = "returned" /\ caller = "update_excel" /\ outcome' = "saved"

\* C4: after every run that saves, the columns of the Contacts sheet are the
\* nine fetched columns in their order, followed only by custom columns of
\* the prior sheet in their original relative order.
C4_ContactsColumns ==
    [][Saves =>
         LET cols == ContactsSheet(file').cols
         IN /\ Len(cols) >= Len(ContactColumns)
            /\ SubSeq(cols, 1, Len(ContactColumns)) = ContactColumns
            /\ IsSubsequence(SubSeq(cols, Len(ContactColumns) + 1, Len(cols)),
                             CustomOf(ContactsSheet(file)))]_vars

SawUnauthorized ==
    \E k \in 1..Len(responses) :
        ~IsRaised(responses[k]) /\ responses[k].status = 401

\* C5: a step of an export run in which a 401 was received, by the probe or
\* by a page request, leaves the file at the output path as it was.
C5_UnauthorizedLeavesFile ==
    [][(\/ (runs' = runs + 1 /\ ~IsRaised(probed') /\ probed'.status = 401)
        \/ (caller = "update_excel" /\ SawUnauthorized)) =>
          file' = file]_vars

\* C10: when a run that loaded the prior workbook saves, every non-blank
\* custom cell the prior Contacts sheet held for an identifier that is in the
\* run's fetch is in the Contacts sheet written, for the same identifier and
\* column.
C10_CustomValuesSurviveRuns ==
    [][(Saves /\ DOMAIN existing_data # {}) =>
         LET old == ContactsSheet(file)
             new == ContactsSheet(file')
         IN "Contact ID" \in Range(old.cols) =>
              \A p \in Range(old.rows) :
                \A c \in Range(CustomOf(old)) :
                    (/\ p[c] # ""
                     /\ \E i \in 1..Len(fetched) : fetched[i].id = p["Contact ID"]) =>
                       \E q \in Range(new.rows) :
                           /\ q["Contact ID"] = p["Contact ID"]
                           /\ c \in DOMAIN q
                           /\ q[c] = p[c]]_vars

====
